---- MODULE Spec2Model ----
(***************************************************************************)
(* A model of rmx-cli: the `start` orchestration (src/src/main.rs,         *)
(* src/src/rmux/mod.rs), the forward layout engine                         *)
(* (Rmux::generate_layout_string), the flex reducer (Pane::from_tokens in  *)
(* src/src/app/config.rs) and the zellij start path                        *)
(* (src/src/driver/zellij/mux.rs).                                         *)
(*                                                                         *)
(* Strings that the program formats or inspects (layout bodies, paths) are *)
(* sequences of byte values; strings it only forwards (session names,      *)
(* shell commands) are TLA+ strings.                                       *)
(***************************************************************************)
EXTENDS Integers, Sequences, FiniteSets, TLC

VARIABLES
    pc,        \* position of the invocation: main / start_session / exit
    backend,   \* "tmux" | "zellij"
    session,   \* the Session deserialized from the YAML file
    cliName,   \* CliCmd::Start { name }: "none" (local .rmux.yaml) or a config name
    attach,    \* CliCmd::Start { attach }
    inside,    \* TMUX is set: tmux.is_inside_session()
    dims,      \* reply of tmux.get_dimensions()
    muxSessions, \* names of the sessions alive in the multiplexer
    cmds,      \* transcript of the subprocess commands run so far
    queue,     \* Tmux's deferred (target, command) queue
    nextWin,   \* next window id the multiplexer hands out
    nextPane,  \* next pane id the multiplexer hands out
    winIdx,    \* loop index i of start_session (1-based)
    layouts,   \* per window: the layout body handed to the final select-layout
    res,       \* "none" | "ok" | "err" | "panic" | "wrapped": result of the command
    tokens,    \* the parsed layout [ok, tok]; ok is FALSE before parsing
    reduced    \* the windows rebuilt by Window::from_tokens

vars == <<pc, backend, session, cliName, attach, inside, dims, muxSessions,
          cmds, queue, nextWin, nextPane, winIdx, layouts, res, tokens, reduced>>

(***************************************************************************)
(* Bytes and number formatting ({} of format! on usize)                    *)
(***************************************************************************)
Ch ==
    [x |-> 120, comma |-> 44, lbrace |-> 123, rbrace |-> 125,
     lbracket |-> 91, rbracket |-> 93, slash |-> 47, tilde |-> 126,
     dot |-> 46, zero |-> 48]

RECURSIVE Dec(_)
Dec(n) ==
    IF n < 10 THEN <<Ch.zero + n>> ELSE Dec(n \div 10) \o <<Ch.zero + (n % 10)>>

RECURSIVE Join(_, _)
Join(strs, sep) ==
    IF Len(strs) = 0 THEN <<>>
    ELSE IF Len(strs) = 1 THEN strs[1]
    ELSE strs[1] \o sep \o Join(Tail(strs), sep)

\* "{}x{},{},{}" of the format! calls in generate_layout_string
Geometry(w, h, x, y) ==
    Dec(w) \o <<Ch.x>> \o Dec(h) \o <<Ch.comma>> \o Dec(x) \o <<Ch.comma>> \o Dec(y)

(***************************************************************************)
(* Paths                                                                   *)
(***************************************************************************)
NoPath == <<0>>                      \* Option::None (no path has a NUL byte)
DotPath == <<Ch.dot>>                \* "."
TmpPath == <<Ch.slash, 116, 109, 112>>   \* "/tmp"
SrcPath == <<115, 114, 99>>          \* "src"

sanitize_path(path, window_path) ==
    IF path = NoPath THEN window_path
    ELSE IF Len(path) > 0 /\ (path[1] = Ch.slash \/ path[1] = Ch.tilde) THEN path
    ELSE IF path = DotPath THEN window_path
    ELSE window_path \o <<Ch.slash>> \o path

(***************************************************************************)
(* The multiplexer client (crate::tmux::Tmux) and the multiplexer behind   *)
(* it.  A client state `st` carries what a start invocation changes:       *)
(*   cmds      the transcript (CmdRunner::run calls, in order)             *)
(*   queue     the deferred command queue                                  *)
(*   sessions  the sessions alive in the multiplexer                       *)
(*   nextWin, nextPane  the ids the multiplexer hands out next             *)
(*   active    the current pane of the window being built                  *)
(*   status    "ok", or "err" (a Result::Err is being propagated by `?`),  *)
(*             or "panic" or "overflow" (see the layout engine)            *)
(***************************************************************************)
NoLayout == <<>>
Tiled == <<116, 105, 108, 101, 100>>     \* "tiled"

Cmd(verb, sess, win, pane, text, layout, path) ==
    [verb |-> verb, sess |-> sess, win |-> win, pane |-> pane, text |-> text,
     layout |-> layout, path |-> path]

Run(st, c) ==
    [st EXCEPT !.cmds = Append(@, c)]

\* tmux has-session -t <name>
session_exists(st, name) ==
    [st |-> Run(st, Cmd("has-session", name, 0, 0,
                        IF name \in st.sessions THEN "exit 0" ELSE "exit 1",
                        NoLayout, NoPath)),
     val |-> name \in st.sessions]

\* printenv TMUX
is_inside_session(st, name) ==
    Run(st, Cmd("printenv", name, 0, 0, "TMUX", NoLayout, NoPath))

\* tmux display-message -p "width: #{window_width}\nheight: #{window_height}"
get_dimensions(st, name) ==
    Run(is_inside_session(st, name),
        Cmd("display-dimensions", name, 0, 0, "", NoLayout, NoPath))

\* tmux new-session -d -s <name> -c <path>: the session starts with one
\* window holding one pane
create_session(st, name, path) ==
    [Run(st, Cmd("new-session", name, 0, 0, "", NoLayout, path))
        EXCEPT !.sessions = @ \cup {name}, !.nextWin = @ + 1, !.nextPane = @ + 1]

\* tmux new-window -Pd -t <session> -n <name> -c <path> -F "#{window_id}"
new_window(st, name, wname, path) ==
    [st |-> [Run(st, Cmd("new-window", name, st.nextWin, 0, wname, NoLayout, path))
                EXCEPT !.nextWin = @ + 1, !.nextPane = @ + 1,
                       !.active = st.nextPane],
     val |-> st.nextWin]

\* tmux kill-window -t <session>:<n>
delete_window(st, name, n) ==
    Run(st, Cmd("kill-window", name, n, 0, "", NoLayout, NoPath))

\* tmux move-window -r -s <session> -t <session>
move_windows(st, name) ==
    Run(st, Cmd("move-window", name, 0, 0, "", NoLayout, NoPath))

\* tmux split-window -t <session>:<window> -c <path> -P -F "#{pane_id}":
\* the new pane becomes the window's current pane
split_window(st, name, wid, path) ==
    [st |-> [Run(st, Cmd("split-window", name, wid, st.nextPane, "", NoLayout, path))
                EXCEPT !.nextPane = @ + 1, !.active = st.nextPane],
     val |-> st.nextPane]

\* tmux display-message -t <session>:<window> -p "#P"
get_current_pane(st, name, wid) ==
    [st |-> Run(st, Cmd("display-pane", name, wid, st.active, "", NoLayout, NoPath)),
     val |-> st.active]

\* tmux select-layout -t <session>:<window> "<layout>"
select_layout(st, name, wid, layout) ==
    Run(st, Cmd("select-layout", name, wid, 0, "", layout, NoPath))

\* the deferred queue: one (target, command) entry per command, appended
RECURSIVE register_commands(_, _, _, _)
register_commands(st, win, pane, commands) ==
    IF Len(commands) = 0 THEN st
    ELSE register_commands(
            [st EXCEPT !.queue = Append(@, [win |-> win, pane |-> pane,
                                            text |-> Head(commands)])],
            win, pane, Tail(commands))

\* tmux send-keys -t <session>:<target> '<cmd>' C-m, front of the queue first
RECURSIVE flush_commands(_, _)
flush_commands(st, name) ==
    IF Len(st.queue) = 0 THEN st
    ELSE LET e == Head(st.queue)
         IN  flush_commands(
                [Run(st, Cmd("send-keys", name, e.win, e.pane, e.text, NoLayout, NoPath))
                    EXCEPT !.queue = Tail(@)],
                name)

\* tmux switch-client -t <session>:1
switch_client(st, name) ==
    Run(st, Cmd("switch-client", name, 0, 0, "", NoLayout, NoPath))

\* tmux attach-session -t <session>:1
attach_session(st, name) ==
    Run(st, Cmd("attach-session", name, 0, 0, "", NoLayout, NoPath))

\* tmux kill-session -t <name>
kill_session(st, name) ==
    [Run(st, Cmd("kill-session", name, 0, 0, "", NoLayout, NoPath))
        EXCEPT !.sessions = @ \ {name}]

\* one byte: csum = ((csum >> 1) | ((csum & 1) << 15)) + b, modulo 2^16
CsumStep(csum, b) ==
    ((csum \div 2) + ((csum % 2) * 32768) + b) % 65536

\* the bytes of body folded into csum from left to right; the fold is split
\* in halves to keep the evaluation shallow
RECURSIVE Csum(_, _)
Csum(body, csum) ==
    IF Len(body) = 0 THEN csum
    ELSE IF Len(body) = 1 THEN CsumStep(csum, body[1])
    ELSE LET half == Len(body) \div 2
             left == Csum(SubSeq(body, 1, half), csum)
         IN  IF left >= 0 THEN Csum(SubSeq(body, half + 1, Len(body)), left)
             ELSE 0

HexDigit(d) ==
    IF d < 10 THEN Ch.zero + d ELSE 97 + (d - 10)

\* "{:04x}"
layout_checksum(body) ==
    LET c == Csum(body, 0)
    IN  <<HexDigit(c \div 4096), HexDigit((c \div 256) % 16),
          HexDigit((c \div 16) % 16), HexDigit(c % 16)>>

(***************************************************************************)
(* The forward layout engine: Rmux::generate_layout_string                 *)
(*                                                                         *)
(* A pane is [flex, flex_direction, path, commands, has_panes, panes];     *)
(* has_panes tells Some(panes) from None.  usize arithmetic: a division by *)
(* zero panics; a subtraction below zero is an "overflow", which panics in *)
(* a build with overflow checks and wraps around 2^64 in one without.      *)
(***************************************************************************)
PaneFlex(p) == p.flex               \* pane.flex.unwrap_or(1), flex given

RECURSIVE TotalFlex(_)
TotalFlex(panes) ==
    IF Len(panes) = 0 THEN 0 ELSE PaneFlex(Head(panes)) + TotalFlex(Tail(panes))

\* PaneExtent with one cell taken off instead of the divider count
PaneExtent_one(axis, current, flex, total_flex, dividers, index, n, depth) ==
    IF index = n
    THEN IF current > axis
         THEN [kind |-> "err", v |-> 0]
         ELSE [kind |-> "ok", v |-> axis - current]
    ELSE IF total_flex = 0
         THEN [kind |-> "panic", v |-> 0]
    ELSE IF depth > 0 \/ index > 1
         THEN IF (axis * flex) \div total_flex < 1
              THEN [kind |-> "overflow", v |-> 0]
              ELSE [kind |-> "ok", v |-> (axis * flex) \div total_flex - 1]
         ELSE [kind |-> "ok", v |-> (axis * flex) \div total_flex]

\* the extent of child `index` (1-based) on the partitioned axis, lines
\* 230-242 and 246-258: [kind, v], kind one of ok, err, panic, overflow
PaneExtent(axis, current, flex, total_flex, dividers, index, n, depth) ==
    IF index = n
    THEN IF current > axis
         THEN [kind |-> "err", v |-> 0]
         ELSE [kind |-> "ok", v |-> axis - current]
    ELSE IF total_flex = 0
         THEN [kind |-> "panic", v |-> 0]
    ELSE IF depth > 0 \/ index > 1
         THEN IF (axis * flex) \div total_flex < dividers
              THEN [kind |-> "overflow", v |-> 0]
              ELSE [kind |-> "ok", v |-> (axis * flex) \div total_flex - dividers]
         ELSE [kind |-> "ok", v |-> (axis * flex) \div total_flex]

\* lines 310-327
ContainerString(pane_strings, width, height, direction) ==
    IF Len(pane_strings) > 1
    THEN IF direction = "column"
         THEN Geometry(width, height, 0, 0) \o <<Ch.lbrace>>
                \o Join(pane_strings, <<Ch.comma>>) \o <<Ch.rbrace>>
         ELSE Geometry(width, height, 0, 0) \o <<Ch.lbracket>>
                \o Join(pane_strings, <<Ch.comma>>) \o <<Ch.rbracket>>
    ELSE Geometry(width, height, 0, 0)

\* lines 294-301
LeafString(pane_width, pane_height, current_x, current_y, pane_id) ==
    Geometry(pane_width, pane_height, current_x, current_y)
        \o <<Ch.comma>> \o Dec(pane_id)

\* lines 270-276: the pane is created (or found) and the window re-tiled
CreatePane(st, name, window_id, path, index) ==
    LET got == IF index > 1
               THEN split_window(st, name, window_id, path)
               ELSE get_current_pane(st, name, window_id)
    IN  [st |-> select_layout(got.st, name, window_id, Tiled), val |-> got.val]

RECURSIVE generate_layout_string(_, _, _, _, _, _, _, _, _)
RECURSIVE LayoutLoop(_, _, _, _, _, _, _, _, _, _, _, _, _)

\* the for loop of lines 225-308, from child `index` on
LayoutLoop(st, ctx, panes, width, height, direction, depth, index, current_x, current_y, dividers, pane_strings, total_flex) ==
    IF st.status # "ok" \/ index > Len(panes)
    THEN [st |-> st, strs |-> pane_strings]
    ELSE
    LET pane == panes[index]
        column == direction = "column"
        ext == PaneExtent(IF column THEN width ELSE height,
                          IF column THEN current_x ELSE current_y,
                          PaneFlex(pane), total_flex, dividers,
                          index, Len(panes), depth)
        pane_width == IF column THEN ext.v ELSE width
        pane_height == IF column THEN height ELSE ext.v
        next_x == IF column THEN current_x + ext.v + 1 ELSE current_x
        next_y == IF column THEN current_y ELSE current_y + ext.v + 1
        dividers2 == IF depth > 0 \/ index > 1 THEN dividers + 1 ELSE dividers
        path == sanitize_path(pane.path, ctx.window_path)
        made == CreatePane(st, ctx.name, ctx.window_id, path, index)
        sub == IF pane.has_panes
               THEN generate_layout_string(made.st, ctx, pane.panes, pane_width,
                        pane_height, pane.flex_direction, current_x, current_y,
                        depth + 1)
               ELSE [st |-> made.st,
                     out |-> LeafString(pane_width, pane_height, current_x,
                                        current_y, made.val)]
    IN
    IF ext.kind # "ok"
    THEN [st |-> [st EXCEPT !.status = ext.kind], strs |-> pane_strings]
    ELSE IF sub.st.status # "ok"
    THEN [st |-> sub.st, strs |-> pane_strings]
    ELSE LayoutLoop(register_commands(sub.st, 0, made.val, pane.commands),
                    ctx, panes, width, height, direction, depth,
                    index + 1, next_x, next_y, dividers2,
                    Append(pane_strings, sub.out), total_flex)

\* lines 203-328; ctx = [name, window_id, window_path], st the tmux client
generate_layout_string(st, ctx, panes, width, height, direction, start_x, start_y, depth) ==
    LET loop == LayoutLoop(st, ctx, panes, width, height, direction, depth,
                           1, start_x, start_y, 0, <<>>, TotalFlex(panes))
    IN  [st |-> loop.st,
         out |-> ContainerString(loop.strs, width, height, direction)]

(***************************************************************************)
(* The layout parser (super::parser): a layout body to a Token tree.       *)
(*   node := W "x" H "," X "," Y [ "," id | "{" list "}" | "[" list "]" ]  *)
(*   list := node { "," node }                                             *)
(* A Token is [width, height, x, y, split_type, has_id, id, children].     *)
(***************************************************************************)
IsDigit(s, i) ==
    i <= Len(s) /\ s[i] >= Ch.zero /\ s[i] <= Ch.zero + 9

Is(s, i, c) ==
    i <= Len(s) /\ s[i] = c

RECURSIVE ParseNumFrom(_, _, _)
ParseNumFrom(s, i, acc) ==
    IF IsDigit(s, i) THEN ParseNumFrom(s, i + 1, acc * 10 + (s[i] - Ch.zero))
    ELSE [v |-> acc, next |-> i]

\* a decimal number at s[i..]: [ok, v, next]
ParseNum(s, i) ==
    IF IsDigit(s, i)
    THEN [ok |-> TRUE] @@ ParseNumFrom(s, i, 0)
    ELSE [ok |-> FALSE, v |-> 0, next |-> i]

BadToken ==
    [width |-> 0, height |-> 0, x |-> 0, y |-> 0, split_type |-> "none",
     has_id |-> FALSE, id |-> 0, children |-> <<>>]

RECURSIVE ParseNode(_, _)
RECURSIVE ParseList(_, _, _)

\* one node at s[i..]: [ok, tok, next]
ParseNode(s, i) ==
    LET w == ParseNum(s, i)
        h == ParseNum(s, w.next + 1)
        x == ParseNum(s, h.next + 1)
        y == ParseNum(s, x.next + 1)
        head == /\ w.ok /\ Is(s, w.next, Ch.x)
                /\ h.ok /\ Is(s, h.next, Ch.comma)
                /\ x.ok /\ Is(s, x.next, Ch.comma)
                /\ y.ok
        base == [width |-> w.v, height |-> h.v, x |-> x.v, y |-> y.v,
                 split_type |-> "none", has_id |-> FALSE, id |-> 0,
                 children |-> <<>>]
        n == y.next
        id == ParseNum(s, n + 1)
        open == Is(s, n, Ch.lbrace) \/ Is(s, n, Ch.lbracket)
        close == IF Is(s, n, Ch.lbrace) THEN Ch.rbrace ELSE Ch.rbracket
        list == ParseList(s, n + 1, <<>>)
    IN
    IF ~head THEN [ok |-> FALSE, tok |-> BadToken, next |-> i]
    ELSE IF Is(s, n, Ch.comma) /\ id.ok /\ ~Is(s, id.next, Ch.x)
    THEN [ok |-> TRUE, tok |-> [base EXCEPT !.has_id = TRUE, !.id = id.v],
          next |-> id.next]
    ELSE IF open
    THEN IF list.ok /\ Is(s, list.next, close)
         THEN [ok |-> TRUE,
               tok |-> [base EXCEPT
                          !.split_type = IF close = Ch.rbrace THEN "Horizontal"
                                         ELSE "Vertical",
                          !.children = list.toks],
               next |-> list.next + 1]
         ELSE [ok |-> FALSE, tok |-> BadToken, next |-> i]
    ELSE [ok |-> TRUE, tok |-> base, next |-> n]

\* nodes separated by commas at s[i..]: [ok, toks, next]
ParseList(s, i, acc) ==
    LET node == ParseNode(s, i)
    IN  IF ~node.ok THEN [ok |-> FALSE, toks |-> acc, next |-> i]
        ELSE IF Is(s, node.next, Ch.comma)
        THEN ParseList(s, node.next + 1, Append(acc, node.tok))
        ELSE [ok |-> TRUE, toks |-> Append(acc, node.tok), next |-> node.next]

\* a whole layout body: [ok, tok]
ParseLayout(s) ==
    LET node == ParseNode(s, 1)
    IN  [ok |-> node.ok /\ node.next = Len(s) + 1, tok |-> node.tok]

(***************************************************************************)
(* The flex reducer: src/src/app/config.rs                                 *)
(***************************************************************************)
RoundBase == 3

RECURSIVE gcd(_, _)
gcd(a, b) ==
    IF b = 0 THEN a ELSE gcd(b, a % b)

RECURSIVE GcdFold(_, _)
GcdFold(numbers, acc) ==
    IF Len(numbers) = 0 THEN acc
    ELSE GcdFold(Tail(numbers), gcd(acc, Head(numbers)))

gcd_vec(numbers) ==
    IF Len(numbers) = 0 \/ \A i \in 1..Len(numbers) : numbers[i] = 0
    THEN 1
    ELSE GcdFold(numbers, 0)

round(number) ==
    LET remainder == number % RoundBase
    IN  IF remainder >= RoundBase \div 2
        THEN number + RoundBase - remainder
        ELSE number - remainder

Max(a, b) == IF a >= b THEN a ELSE b

FlexDirection_from_split_type(split_type) ==
    IF split_type = "Horizontal" THEN "column" ELSE "row"

\* token.split_type.map(from_split_type).unwrap_or(default)
TokenDirection(token) ==
    IF token.split_type = "none" THEN "row"
    ELSE FlexDirection_from_split_type(token.split_type)

dimension_selector(flex_direction, c) ==
    IF flex_direction = "row" THEN c.height ELSE c.width

\* the flex values of the siblings `children`, lines 84-113
FlexValues(children, flex_direction) ==
    LET dimensions == [i \in 1..Len(children) |->
                          round(dimension_selector(flex_direction, children[i]))]
        g == gcd_vec(dimensions)
        flex_values == [i \in 1..Len(children) |->
                          dimension_selector(flex_direction, children[i]) \div g]
        flex_gcd == gcd_vec(flex_values)
    IN  [i \in 1..Len(children) |-> Max(flex_values[i] \div flex_gcd, 1)]

\* Pane::from_tokens; None is the empty sequence with has_panes = FALSE at
\* the parent
RECURSIVE Pane_from_tokens(_, _)
Pane_from_tokens(children, flex_direction) ==
    LET flex == FlexValues(children, flex_direction)
    IN  [i \in 1..Len(children) |->
            [flex |-> flex[i],
             flex_direction |-> TokenDirection(children[i]),
             path |-> DotPath,
             commands |-> <<>>,
             has_panes |-> Len(children[i].children) > 0,
             panes |-> Pane_from_tokens(children[i].children,
                                        TokenDirection(children[i]))]]

\* Window::from_tokens: [flex_direction, panes]
Window_from_tokens(token) ==
    [flex_direction |-> TokenDirection(token),
     panes |-> Pane_from_tokens(token.children, TokenDirection(token))]

\* Window::validate and Session::validate: the error list
Window_validate(w) ==
    IF Len(w.panes) = 0 THEN <<"Panes cannot be empty">> ELSE <<>>

RECURSIVE WindowErrors(_)
WindowErrors(windows) ==
    IF Len(windows) = 0 THEN <<>>
    ELSE Window_validate(Head(windows)) \o WindowErrors(Tail(windows))

Session_validate(s) ==
    (IF Len(s.windows) = 0 THEN <<"Windows cannot be empty">> ELSE <<>>)
        \o WindowErrors(s.windows)

(***************************************************************************)
(* start_session, stop_session and main's error handling                   *)
(***************************************************************************)
\* the client state at the current program state
Client ==
    [cmds |-> cmds, queue |-> queue, sessions |-> muxSessions,
     nextWin |-> nextWin, nextPane |-> nextPane, active |-> 0, status |-> "ok"]


\* FinalLayout with the arguments of the format! exchanged
FinalLayout_swapped(body) ==
    body \o <<Ch.comma>> \o layout_checksum(body)

\* "<checksum>,<body>" of line 185
FinalLayout(body) ==
    layout_checksum(body) \o <<Ch.comma>> \o body

\* build_window with the window re-tiled once more after its final layout
build_window_retiled(st, sess, i, d) ==
    LET window == sess.windows[i]
        window_path == sanitize_path(window.path, sess.path)
        nw == new_window(st, sess.name, window.name, window_path)
        reg == register_commands(nw.st, nw.val, 0, window.commands)
        first == IF i = 1
                 THEN move_windows(delete_window(reg, sess.name, 1), sess.name)
                 ELSE reg
        gen == generate_layout_string(first,
                   [name |-> sess.name, window_id |-> nw.val,
                    window_path |-> window_path],
                   window.panes, d[1], d[2], window.flex_direction, 0, 0, 0)
    IN  [st |-> IF gen.st.status = "ok"
                THEN select_layout(
                        select_layout(gen.st, sess.name, nw.val, FinalLayout(gen.out)),
                        sess.name, nw.val, Tiled)
                ELSE gen.st,
         body |-> gen.out]

\* one iteration of the loop of lines 148-187 for window i (1-based):
\* [st, body]
build_window(st, sess, i, d) ==
    LET window == sess.windows[i]
        window_path == sanitize_path(window.path, sess.path)
        nw == new_window(st, sess.name, window.name, window_path)
        reg == register_commands(nw.st, nw.val, 0, window.commands)
        first == IF i = 1
                 THEN move_windows(delete_window(reg, sess.name, 1), sess.name)
                 ELSE reg
        gen == generate_layout_string(first,
                   [name |-> sess.name, window_id |-> nw.val,
                    window_path |-> window_path],
                   window.panes, d[1], d[2], window.flex_direction, 0, 0, 0)
    IN  [st |-> IF gen.st.status = "ok"
                THEN select_layout(gen.st, sess.name, nw.val, FinalLayout(gen.out))
                ELSE gen.st,
         body |-> gen.out]

\* lines 189-195 (and 132-138)
attach_or_switch(st, name, att, ins) ==
    IF att
    THEN IF ins THEN switch_client(is_inside_session(st, name), name)
         ELSE attach_session(is_inside_session(st, name), name)
    ELSE st

\* Rmux::stop_session, lines 330-333
stop_session(st, name) ==
    kill_session(st, name)

\* main, lines 32-47: what the Err arm does before exit(1); a panic unwinds
\* past it
main_error(st, name) ==
    IF st.status = "err" /\ name # "none" THEN stop_session(st, name) ELSE st

\* has-session and printenv report by their exit status; every other
\* subprocess is run with `?`
CanFail(c) ==
    c.verb \notin {"has-session", "printenv", "zellij-list-sessions"}

\* the client states a step can end in, when it would take `before` to
\* `after` with every subprocess succeeding: `after` itself, or, for each
\* fallible subprocess of the step, the state in which that one returned
\* non-zero and `?` propagated the error
Outcomes(before, after) ==
    {after} \cup
    {[before EXCEPT !.cmds = SubSeq(after.cmds, 1, k), !.status = "err"] :
        k \in {j \in (Len(before.cmds) + 1)..Len(after.cmds) : CanFail(after.cmds[j])}}

\* start_flow with the queue flushed before the client is attached
start_flow_flush_first(p, yes) ==
    CASE p = "check" -> IF yes THEN "existing" ELSE "dimensions"
      [] p = "existing" -> "exit"
      [] p = "dimensions" -> "create"
      [] p = "create" -> IF yes THEN "window" ELSE "flush"
      [] p = "window" -> IF yes THEN "window" ELSE "flush"
      [] p = "flush" -> "attach"
      [] p = "attach" -> "exit"

\* the statement start_session goes to after the one at p; `yes` is the
\* outcome of the condition tested there (line 130: the session exists;
\* line 148: a window is left to build)
start_flow(p, yes) ==
    CASE p = "check" -> IF yes THEN "existing" ELSE "dimensions"
      [] p = "existing" -> "exit"
      [] p = "dimensions" -> "create"
      [] p = "create" -> IF yes THEN "window" ELSE "attach"
      [] p = "window" -> IF yes THEN "window" ELSE "attach"
      [] p = "attach" -> "flush"
      [] p = "flush" -> "exit"

\* what the process shows for a step that ended with `status`: an overflow
\* is a panic in a build with overflow checks; in one without, the value
\* wrapped around and the run goes on with it ("wrapped", not followed
\* further)
BuildOutcomes(status) ==
    IF status = "overflow" THEN {"panic", "wrapped"} ELSE {status}

\* the program state after a step that ended in client state o
Commit(o, okpc) ==
    LET f == main_error(o, cliName)
    IN  /\ cmds' = f.cmds
        /\ queue' = f.queue
        /\ muxSessions' = f.sessions
        /\ nextWin' = f.nextWin
        /\ nextPane' = f.nextPane
        /\ pc' = IF o.status = "ok" THEN okpc ELSE "exit"
        /\ \E r \in BuildOutcomes(o.status) :
              res' = IF o.status = "ok" THEN (IF okpc = "exit" THEN "ok" ELSE res)
                     ELSE r

\* lines 106-119: the config is read and parsed, or start fails there
LoadConfig ==
    /\ pc = "main"
    /\ \E readable \in BOOLEAN :
          Commit([Client EXCEPT !.status = IF readable THEN "ok" ELSE "err"],
                 IF backend = "tmux" THEN "check" ELSE "zellij")
    /\ UNCHANGED <<backend, session, cliName, attach, inside, dims, winIdx,
                   layouts, tokens, reduced>>

\* line 130
CheckSession ==
    /\ pc = "check"
    /\ LET e == session_exists(Client, session.name)
       IN  Commit(e.st, start_flow(pc, e.val))
    /\ UNCHANGED <<backend, session, cliName, attach, inside, dims, winIdx,
                   layouts, tokens, reduced>>

\* lines 131-139
AttachExisting ==
    /\ pc = "existing"
    /\ \E o \in Outcomes(Client,
                          attach_or_switch(Client, session.name, attach, inside)) :
          Commit(o, start_flow(pc, TRUE))
    /\ UNCHANGED <<backend, session, cliName, attach, inside, dims, winIdx,
                   layouts, tokens, reduced>>

\* line 142
GetDimensions ==
    /\ pc = "dimensions"
    /\ \E o \in Outcomes(Client, get_dimensions(Client, session.name)) :
          Commit(o, start_flow(pc, TRUE))
    /\ UNCHANGED <<backend, session, cliName, attach, inside, dims, winIdx,
                   layouts, tokens, reduced>>

\* line 145
CreateSession ==
    /\ pc = "create"
    /\ \E o \in Outcomes(Client, create_session(Client, session.name, session.path)) :
          Commit(o, start_flow(pc, Len(session.windows) > 0))
    /\ winIdx' = 1
    /\ UNCHANGED <<backend, session, cliName, attach, inside, dims,
                   layouts, tokens, reduced>>

\* lines 148-187, one iteration
BuildWindow ==
    /\ pc = "window"
    /\ LET b == build_window(Client, session, winIdx, dims)
       IN  \E o \in Outcomes(Client, b.st) :
             /\ Commit(o, start_flow(pc, winIdx < Len(session.windows)))
             /\ layouts' = IF o.status = "ok" THEN Append(layouts, b.body) ELSE layouts
    /\ winIdx' = winIdx + 1
    /\ UNCHANGED <<backend, session, cliName, attach, inside, dims, tokens, reduced>>

\* lines 189-195
Attach ==
    /\ pc = "attach"
    /\ \E o \in Outcomes(Client,
                          attach_or_switch(Client, session.name, attach, inside)) :
          Commit(o, start_flow(pc, TRUE))
    /\ UNCHANGED <<backend, session, cliName, attach, inside, dims, winIdx,
                   layouts, tokens, reduced>>

\* lines 197-200
Flush ==
    /\ pc = "flush"
    /\ \E o \in Outcomes(Client, flush_commands(Client, session.name)) :
          Commit(o, start_flow(pc, TRUE))
    /\ UNCHANGED <<backend, session, cliName, attach, inside, dims, winIdx,
                   layouts, tokens, reduced>>

(***************************************************************************)
(* The zellij driver: src/src/driver/zellij/mux.rs                         *)
(***************************************************************************)
\* ZellijClient::session_exists
zellij_session_exists(st, name) ==
    [st |-> Run(st, Cmd("zellij-list-sessions", name, 0, 0,
                        IF name \in st.sessions THEN "exit 0" ELSE "exit 1",
                        NoLayout, NoPath)),
     val |-> name \in st.sessions]

\* ZellijClient::attach
zellij_attach(st, name) ==
    Run(st, Cmd("zellij-attach", name, 0, 0, "", NoLayout, NoPath))

\* ZellijClient::create_session_with_layout:
\* zellij --layout <path> attach -c <name>
zellij_create_session_with_layout(st, name) ==
    [Run(st, Cmd("zellij-create", name, 0, 0, "", NoLayout, NoPath))
        EXCEPT !.sessions = @ \cup {name}]

\* Zellij::switch, lines 69-79: [st, val]
Zellij_switch(st, name, skip_attach) ==
    LET e == zellij_session_exists(st, name)
    IN  IF e.val
        THEN [st |-> IF ~skip_attach THEN zellij_attach(e.st, name) ELSE e.st,
              val |-> TRUE]
        ELSE [st |-> e.st, val |-> FALSE]

\* Zellij::start, lines 43-59; `written` tells whether session_to_layout
\* could write /tmp/<name>.kdl
Zellij_start(st, sess, skip_attach, written) ==
    LET sw == Zellij_switch(st, sess.name, skip_attach)
    IN  IF sw.val THEN sw.st
        ELSE IF ~written THEN [sw.st EXCEPT !.status = "err"]
        ELSE zellij_create_session_with_layout(sw.st, sess.name)

ZellijStart ==
    /\ pc = "zellij"
    /\ \E written \in BOOLEAN :
          LET z == Zellij_start(Client, session, ~attach, written)
          IN  \E o \in Outcomes(Client, z) :
                /\ cmds' = o.cmds
                /\ muxSessions' = o.sessions
                /\ pc' = "exit"
                /\ res' = o.status
    /\ UNCHANGED <<backend, session, cliName, attach, inside, dims, winIdx,
                   layouts, tokens, reduced, queue, nextWin, nextPane>>

(***************************************************************************)
(* Inputs                                                                  *)
(***************************************************************************)
MaxKids == 2        \* children of a container, panes of a window

Leaf(flex, commands, path) ==
    [flex |-> flex, flex_direction |-> "row", path |-> path,
     commands |-> commands, has_panes |-> FALSE, panes |-> <<>>]

Box(flex, direction, commands, path, panes) ==
    [flex |-> flex, flex_direction |-> direction, path |-> path,
     commands |-> commands, has_panes |-> TRUE, panes |-> panes]

Window(name, direction, commands, panes) ==
    [name |-> name, path |-> NoPath, flex_direction |-> direction,
     commands |-> commands, panes |-> panes]

Session(windows) ==
    [name |-> "test", path |-> TmpPath, windows |-> windows]

PaneCommands == <<"clear", "echo hi">>
WindowCommands == <<"echo window">>

\* which panes carry commands
CommandPatterns == SUBSET {"window", "box", "leaf"}

\* a window of k panes of which pane j (0: none) holds m panes of its own,
\* of which pane `deep` (0: none) holds two more
ShapedPanes(k, j, m, deep, on) ==
    LET leafc == IF "leaf" \in on THEN PaneCommands ELSE <<>>
        boxc == IF "box" \in on THEN PaneCommands ELSE <<>>
        inner == [i \in 1..m |->
                    IF i = deep
                    THEN Box(1, "column", boxc, SrcPath,
                             <<Leaf(1, leafc, DotPath), Leaf(1, leafc, DotPath)>>)
                    ELSE Leaf(1, leafc, DotPath)]
    IN  [i \in 1..k |->
            IF i = j THEN Box(1, "row", boxc, SrcPath, inner)
            ELSE Leaf(1, leafc, DotPath)]

ShapedWindows ==
    {Window("code", "column",
            IF "window" \in on THEN WindowCommands ELSE <<>>,
            ShapedPanes(k, j, m, deep, on)) :
        k \in 0..MaxKids, j \in 0..MaxKids, m \in 0..MaxKids,
        deep \in 0..MaxKids, on \in CommandPatterns}

SecondWindow ==
    Window("infrastructure", "column", WindowCommands,
           <<Leaf(1, <<>>, DotPath), Leaf(2, PaneCommands, SrcPath)>>)

RichSessions ==
    {Session(<<>>)} \cup {Session(<<w>>) : w \in ShapedWindows}
        \cup {Session(<<w, SecondWindow>>) : w \in ShapedWindows}

SmallSessions ==
    {Session(<<>>),
     Session(<<Window("code", "row", <<>>, <<>>)>>),
     Session(<<Window("code", "row", WindowCommands, <<Leaf(1, PaneCommands, DotPath)>>)>>),
     Session(<<SecondWindow, Window("code", "row", <<>>, <<>>)>>)}

\* the session of test::start_session: src/rmux/test/test.yaml as the
\* asserted transcript shows it
TwoPath == <<116, 119, 111>>                  \* "two"
ThreePath == <<116, 104, 114, 101, 101>>      \* "three"

TestSession ==
    Session(<<Window("code", "column", WindowCommands,
                     <<Box(1, "row", PaneCommands, DotPath,
                           <<Leaf(1, <<>>, DotPath), Leaf(2, <<>>, DotPath)>>),
                       Leaf(1, PaneCommands, SrcPath)>>),
              Window("infrastructure", "column", <<>>,
                     <<Leaf(1, PaneCommands, DotPath),
                       Leaf(2, PaneCommands, TwoPath),
                       Leaf(1, PaneCommands, ThreePath)>>)>>)

\* window sizes the multiplexer reports
WindowSizes == {<<160, 90>>, <<80, 24>>}

InitProgram ==
    /\ pc = "main"
    /\ cmds = <<>>
    /\ queue = <<>>
    /\ nextWin = 0
    /\ winIdx = 0
    /\ layouts = <<>>
    /\ res = "none"
    /\ tokens = [ok |-> FALSE, tok |-> BadToken]
    /\ reduced = <<>>

Init ==
    /\ InitProgram
    /\ \/ /\ backend = "tmux"
          /\ session \in RichSessions
          /\ cliName = "test"
          /\ muxSessions = {}
          /\ dims = <<160, 90>>
          /\ nextPane = 0
       \/ /\ backend \in {"tmux", "zellij"}
          /\ session \in SmallSessions
          /\ cliName \in {"none", "test", "cfg"}
          /\ muxSessions \in SUBSET {"test", "cfg"}
          /\ dims \in WindowSizes
          /\ nextPane = 0
       \/ /\ backend = "tmux"
          /\ session = TestSession
          /\ cliName = "test"
          /\ muxSessions = {}
          /\ dims = <<160, 90>>
          /\ nextPane \in {0, 1}
    /\ attach \in BOOLEAN
    /\ inside \in BOOLEAN

Next ==
    \/ LoadConfig
    \/ CheckSession
    \/ AttachExisting
    \/ GetDimensions
    \/ CreateSession
    \/ BuildWindow
    \/ Attach
    \/ Flush
    \/ ZellijStart

Spec == Init /\ [][Next]_vars

(***************************************************************************)
(* The layout round trip: the forward engine on one window, the parser on  *)
(* the body it emitted, the flex reducer on the tokens, and the engine     *)
(* again on the reduced window.                                            *)
(***************************************************************************)
FlexChoices == {1, 2}

FlexVectors(n) == [1..n -> FlexChoices]

Directions == {"row", "column"}

\* k panes with flex fl of which pane j (0: none) holds panes with flex fm
GeoPanes(fl, j, d2, fm) ==
    [i \in 1..Len(fl) |->
        IF i = j
        THEN Box(fl[i], d2, <<>>, DotPath,
                 [n \in 1..Len(fm) |-> Leaf(fm[n], <<>>, DotPath)])
        ELSE Leaf(fl[i], <<>>, DotPath)]

GeoWindows ==
    {Window("code", d, <<>>, GeoPanes(fl, j, d2, fm)) :
        d \in Directions, d2 \in Directions, j \in 0..MaxKids,
        fl \in UNION {FlexVectors(k) : k \in 1..MaxKids},
        fm \in UNION {FlexVectors(m) : m \in 1..MaxKids}}

\* three levels, the directions alternating or repeating
DeepWindows ==
    {Window("code", d, <<>>,
        <<Leaf(1, <<>>, DotPath),
          Box(2, d2, <<>>, DotPath,
              <<Leaf(1, <<>>, DotPath),
                Box(1, d3, <<>>, DotPath,
                    <<Leaf(1, <<>>, DotPath), Leaf(f, <<>>, DotPath)>>)>>)>>) :
        d \in Directions, d2 \in Directions, d3 \in Directions,
        f \in FlexChoices}

\* panes with flex 0 among them
ZeroFlexWindows ==
    {Window("code", d, <<>>, [i \in 1..Len(fl) |-> Leaf(fl[i], <<>>, DotPath)]) :
        d \in Directions,
        fl \in {v \in UNION {[1..k -> {0, 1}] : k \in 1..MaxKids} :
                   \E i \in 1..Len(v) : v[i] = 0}}

MaxWide == 4        \* children of a wide container

WideVectors == UNION {FlexVectors(k) : k \in 3..MaxWide}

\* containers of three children and more, at the root and below it
WideWindows ==
    {Window("code", d, <<>>, [i \in 1..Len(fl) |-> Leaf(fl[i], <<>>, DotPath)]) :
        d \in Directions, fl \in WideVectors}
    \cup
    {Window("code", d, <<>>,
        <<Box(1, d2, <<>>, DotPath,
              [i \in 1..Len(fl) |-> Leaf(fl[i], <<>>, DotPath)]),
          Leaf(1, <<>>, DotPath)>>) :
        d \in Directions, d2 \in Directions, fl \in WideVectors}

GeoSizes == {<<160, 90>>, <<80, 24>>, <<9, 5>>}

\* the client once the session exists: new-session has taken window 0 and
\* pane 0
FreshClient ==
    [cmds |-> <<>>, queue |-> <<>>, sessions |-> {"test"},
     nextWin |-> 1, nextPane |-> 1, active |-> 0, status |-> "ok"]

InitLayout ==
    /\ pc = "main"
    /\ cmds = FreshClient.cmds
    /\ queue = FreshClient.queue
    /\ muxSessions = FreshClient.sessions
    /\ nextWin = FreshClient.nextWin
    /\ nextPane = FreshClient.nextPane
    /\ winIdx = 1
    /\ layouts = <<>>
    /\ res = "none"
    /\ tokens = [ok |-> FALSE, tok |-> BadToken]
    /\ reduced = <<>>
    /\ backend = "tmux"
    /\ cliName = "test"
    /\ attach = FALSE
    /\ inside = FALSE
    /\ session \in {Session(<<w>>) :
                        w \in GeoWindows \cup DeepWindows \cup ZeroFlexWindows
                                \cup WideWindows}
    /\ dims \in GeoSizes

\* the engine on the window at the reported size
EmitLayout ==
    /\ pc = "main"
    /\ LET b == build_window(Client, session, 1, dims)
       IN  /\ cmds' = b.st.cmds
           /\ queue' = b.st.queue
           /\ nextWin' = b.st.nextWin
           /\ nextPane' = b.st.nextPane
           /\ res' \in BuildOutcomes(b.st.status)
           /\ layouts' = IF b.st.status = "ok" THEN <<b.body>> ELSE layouts
           /\ pc' = IF b.st.status = "ok" THEN "parse" ELSE "exit"
    /\ UNCHANGED <<backend, session, cliName, attach, inside, dims, muxSessions,
                   winIdx, tokens, reduced>>

\* the parser on the emitted body
ParseBody ==
    /\ pc = "parse"
    /\ tokens' = ParseLayout(layouts[1])
    /\ pc' = IF tokens'.ok THEN "reduce" ELSE "exit"
    /\ UNCHANGED <<backend, session, cliName, attach, inside, dims, muxSessions,
                   cmds, queue, nextWin, nextPane, winIdx, layouts, res, reduced>>

\* Session::from_tokens on the one window
ReduceFlex ==
    /\ pc = "reduce"
    /\ reduced' = <<Window_from_tokens(tokens.tok)>>
    /\ pc' = "reemit"
    /\ UNCHANGED <<backend, session, cliName, attach, inside, dims, muxSessions,
                   cmds, queue, nextWin, nextPane, winIdx, layouts, res, tokens>>

\* the engine on the reduced window; the multiplexer hands out the same ids
\* as it did for the first
ReEmit ==
    /\ pc = "reemit"
    /\ LET w == Window("code", reduced[1].flex_direction, <<>>, reduced[1].panes)
           b == build_window(FreshClient, Session(<<w>>), 1, dims)
       IN  /\ layouts' = IF b.st.status = "ok" THEN Append(layouts, b.body)
                         ELSE layouts
           /\ res' \in BuildOutcomes(b.st.status)
    /\ pc' = "exit"
    /\ UNCHANGED <<backend, session, cliName, attach, inside, dims, muxSessions,
                   cmds, queue, nextWin, nextPane, winIdx, tokens, reduced>>

NextLayout ==
    \/ EmitLayout
    \/ ParseBody
    \/ ReduceFlex
    \/ ReEmit

SpecLayout == InitLayout /\ [][NextLayout]_vars

(***************************************************************************)
(* Properties of the command transcript                                    *)
(***************************************************************************)
IsSplit(c) == c.verb = "split-window"
IsTiledLayout(c) == c.verb = "select-layout" /\ c.layout = Tiled
IsFinalLayout(c) == c.verb = "select-layout" /\ c.layout # Tiled
IsSendKeys(c) == c.verb = "send-keys"
IsAttach(c) == c.verb \in {"attach-session", "switch-client"}
IsNewWindow(c) == c.verb = "new-window"

Positions(Test(_)) == {i \in 1..Len(cmds) : Test(cmds[i])}

\* a tmux start that returned Ok
StartedOk == backend = "tmux" /\ pc = "exit" /\ res = "ok"

\* the id of the i-th window start created
WindowIdAt(i) == SelectSeq(cmds, IsNewWindow)[i].win

\* the windows start has finished: their final select-layout is out
WindowsLaidOut ==
    {i \in 1..Len(SelectSeq(cmds, IsNewWindow)) :
        \E j \in Positions(IsFinalLayout) : cmds[j].win = WindowIdAt(i)}

SplitsOf(w) == Cardinality({j \in Positions(IsSplit) : cmds[j].win = w})

\* the body of the final select-layout of window w, after "<checksum>,"
FinalBodyOf(w) ==
    LET j == CHOOSE n \in Positions(IsFinalLayout) : cmds[n].win = w
    IN  SubSeq(cmds[j].layout, 6, Len(cmds[j].layout))

\* the pane the multiplexer reported as the current one of window w when
\* the window was opened
FirstPaneOf(w) ==
    LET first == CHOOSE n \in 1..Len(cmds) :
                    /\ cmds[n].verb = "display-pane" /\ cmds[n].win = w
                    /\ \A m \in 1..(n - 1) :
                          ~(cmds[m].verb = "display-pane" /\ cmds[m].win = w)
    IN  cmds[first].pane

\* C1: in the transcript of a successful start every split-window and every
\* select-layout tiled of a window precedes that window's final
\* select-layout, and every final select-layout precedes every send-keys.
C1_LayoutsBeforeKeys ==
    StartedOk =>
        \A i \in Positions(IsFinalLayout) :
            /\ \A j \in Positions(IsSplit) \cup Positions(IsTiledLayout) :
                  cmds[j].win = cmds[i].win => j < i
            /\ \A j \in Positions(IsSendKeys) : i < j

C1_TwoWindowsStarted ==
    /\ StartedOk
    /\ Len(session.windows) = 2
    /\ Cardinality(Positions(IsFinalLayout)) = 2
    /\ Positions(IsSplit) # {}
    /\ Positions(IsTiledLayout) # {}
    /\ Positions(IsSendKeys) # {}

(***************************************************************************)
(* Properties of the emitted layout                                        *)
(***************************************************************************)
RECURSIVE SeqSum(_)
SeqSum(s) == IF Len(s) = 0 THEN 0 ELSE Head(s) + SeqSum(Tail(s))

\* the extent of a token on the axis a container of split_type partitions
ExtentOn(tok, split_type) ==
    IF split_type = "Horizontal" THEN tok.width ELSE tok.height

RECURSIVE SumsOK(_)
SumsOK(tok) ==
    \/ Len(tok.children) = 0
    \/ /\ SeqSum([i \in 1..Len(tok.children) |->
                    ExtentOn(tok.children[i], tok.split_type)])
            + (Len(tok.children) - 1) = ExtentOn(tok, tok.split_type)
       /\ \A i \in 1..Len(tok.children) : SumsOK(tok.children[i])

\* C2: for every container of every emitted layout, the extents of its
\* children on the partitioned axis plus one cell for each divider between
\* them sum to the extent of the container.
C2_GeometrySums ==
    tokens.ok => SumsOK(tokens.tok)

\* the entries of a layout that carry a pane id, left to right
RECURSIVE PaneIds(_)
RECURSIVE PaneIdsOfAll(_)
PaneIds(tok) ==
    IF tok.has_id THEN <<tok.id>> ELSE PaneIdsOfAll(tok.children)

PaneIdsOfAll(toks) ==
    IF Len(toks) = 0 THEN <<>>
    ELSE PaneIds(Head(toks)) \o PaneIdsOfAll(Tail(toks))

\* the leaves of a pane tree
RECURSIVE TreeLeaves(_)
TreeLeaves(panes) ==
    SeqSum([i \in 1..Len(panes) |->
              IF panes[i].has_panes THEN TreeLeaves(panes[i].panes) ELSE 1])

\* C3: for every window start has built, the final layout has as many
\* entries with a pane id as split-window commands were issued for the
\* window plus one, these ids are distinct, and there is one for each leaf
\* of the window's pane tree.
C3_LeafBijection ==
    backend = "tmux" =>
        \A i \in WindowsLaidOut :
            LET ids == PaneIds(ParseLayout(FinalBodyOf(WindowIdAt(i))).tok)
            IN  /\ Len(ids) = SplitsOf(WindowIdAt(i)) + 1
                /\ Cardinality({ids[n] : n \in 1..Len(ids)}) = Len(ids)
                /\ Len(ids) = TreeLeaves(session.windows[i].panes)

SingleLeaf(w) == Len(w.panes) = 1 /\ ~w.panes[1].has_panes

\* C4: for a window of exactly one leaf pane at window size WxH, start
\* issues no split-window and the final layout body is 'WxH,0,0,<pid>',
\* <pid> the id of the window's existing pane.
C4_SingleLeafWithId ==
    backend = "tmux" =>
        \A i \in WindowsLaidOut :
            SingleLeaf(session.windows[i]) =>
                /\ SplitsOf(WindowIdAt(i)) = 0
                /\ FinalBodyOf(WindowIdAt(i)) =
                      LeafString(dims[1], dims[2], 0, 0, FirstPaneOf(WindowIdAt(i)))

(***************************************************************************)
(* Properties of the round trip                                            *)
(***************************************************************************)
RECURSIVE LowestTerms(_)
LowestTerms(panes) ==
    /\ Len(panes) > 0 => gcd_vec([i \in 1..Len(panes) |-> panes[i].flex]) = 1
    /\ \A i \in 1..Len(panes) : LowestTerms(panes[i].panes)

RECURSIVE SameWeights(_, _)
SameWeights(a, b) ==
    /\ Len(a) = Len(b)
    /\ \A i \in 1..Len(a) :
          /\ a[i].flex = b[i].flex
          /\ SameWeights(a[i].panes, b[i].panes)

\* C5: a pane tree whose sibling flex weights are in lowest terms, emitted,
\* parsed and reduced, comes back with the same shape and the same weight at
\* every node, and emitting the reduced tree at the same size gives the same
\* body again.
C5_WeightsRoundTrip ==
    (reduced # <<>> /\ LowestTerms(session.windows[1].panes)) =>
        /\ SameWeights(session.windows[1].panes, reduced[1].panes)
        /\ pc = "exit" => (Len(layouts) = 2 /\ layouts[2] = layouts[1])

(***************************************************************************)
(* Properties of start as a whole                                          *)
(***************************************************************************)
\* new-session ran and returned zero: a later command of start follows it
StartCreated ==
    \E j \in 1..(Len(cmds) - 1) :
        cmds[j].verb = "new-session" /\ cmds[j + 1].verb # "kill-session"

\* C6: when start fails after it has created the session, stop is invoked
\* on that session before the process exits, and the session is gone.
C6_RollbackStopsCreated ==
    (pc = "exit" /\ res = "err" /\ StartCreated) =>
        /\ \E j \in 1..Len(cmds) :
              cmds[j].verb = "kill-session" /\ cmds[j].sess = session.name
        /\ session.name \notin muxSessions

SideEffectVerbs ==
    {"new-session", "new-window", "split-window", "select-layout",
     "kill-window", "send-keys"}

\* C7: a session that fails validation makes start fail with no
\* new-session, new-window, split-window, select-layout, kill-window or
\* send-keys issued.
C7_InvalidNoSideEffects ==
    (backend = "tmux" /\ Session_validate(session) # <<>>) =>
        /\ \A j \in 1..Len(cmds) : cmds[j].verb \notin SideEffectVerbs
        /\ pc = "exit" => res = "err"

\* the multiplexer answered that the session exists
ReportedExisting ==
    \E j \in 1..Len(cmds) :
        /\ cmds[j].verb \in {"has-session", "zellij-list-sessions"}
        /\ cmds[j].text = "exit 0"

ProbeVerbs == {"has-session", "zellij-list-sessions", "printenv"}

AttachVerbs == {"attach-session", "switch-client", "zellij-attach"}

\* C8: when the multiplexer reports the session as existing, nothing is
\* created and no layout or send-keys is issued; the only command after the
\* probes is the attach or switch-client, and only if attaching was
\* requested; the operation succeeds unless that command failed.
C8_ExistingOnlyAttaches ==
    ReportedExisting =>
        /\ \A j \in 1..Len(cmds) :
              \/ cmds[j].verb \in ProbeVerbs
              \/ attach /\ cmds[j].verb \in AttachVerbs
        /\ pc = "exit" =>
              \/ res = "ok"
              \/ attach /\ cmds[Len(cmds)].verb \in AttachVerbs

\* C9: in a successful start with attaching requested, the attach or
\* switch-client comes after every final select-layout and before every
\* send-keys; with attaching not requested there is none.
C9_AttachBetween ==
    StartedOk =>
        IF attach
        THEN /\ Cardinality(Positions(IsAttach)) = 1
             /\ \A a \in Positions(IsAttach) :
                   /\ \A i \in Positions(IsFinalLayout) : i < a
                   /\ \A j \in Positions(IsSendKeys) : a < j
        ELSE Positions(IsAttach) = {}

C9_AttachedAfterLayouts ==
    /\ StartedOk
    /\ attach
    /\ Positions(IsAttach) # {}
    /\ Cardinality(Positions(IsFinalLayout)) = 2
    /\ Positions(IsSendKeys) # {}

\* the window in which pane p was created or found
PaneWindow(p) ==
    LET n == CHOOSE m \in 1..Len(cmds) :
                cmds[m].verb \in {"split-window", "display-pane"} /\ cmds[m].pane = p
    IN  cmds[n].win

\* C10: the send-keys of a start are ordered: the commands of a window
\* before those of its panes, the panes in the order of their creation, the
\* commands of one pane in the order of their declaration.
C10_KeysInCreationOrder ==
    StartedOk =>
        LET keys == SelectSeq(cmds, IsSendKeys)
        IN  /\ \A i \in 1..Len(keys) : \A j \in (i + 1)..Len(keys) :
                  /\ (keys[i].pane # 0 /\ keys[j].pane # 0) =>
                        keys[i].pane <= keys[j].pane
                  /\ (keys[i].pane # 0 /\ keys[j].pane = 0) =>
                        PaneWindow(keys[i].pane) # keys[j].win
            /\ \A i \in 1..Len(keys) :
                  keys[i].text = PaneCommands[1] =>
                      /\ i < Len(keys)
                      /\ keys[i + 1].text = PaneCommands[2]
                      /\ keys[i + 1].pane = keys[i].pane

(***************************************************************************)
(* Properties of the shares                                                *)
(***************************************************************************)
\* the panes with every flex 0 replaced by 1
RECURSIVE ZeroAsOne(_)
ZeroAsOne(panes) ==
    [i \in 1..Len(panes) |->
        [panes[i] EXCEPT !.flex = IF @ = 0 THEN 1 ELSE @,
                         !.panes = ZeroAsOne(@)]]

\* the engine has run on the window: it emitted a body or failed
Emitted == pc = "parse" \/ (pc = "exit" /\ layouts = <<>>)

\* C11: a window laid out with flex 0 on some panes gives what the same
\* window gives with each flex 0 replaced by 1: the same body, and no
\* failure where that one has none.
C11_ZeroFlexAsOne ==
    Emitted =>
        LET w == session.windows[1]
            b == build_window(FreshClient,
                              Session(<<[w EXCEPT !.panes = ZeroAsOne(@)]>>),
                              1, dims)
        IN  /\ (b.st.status = "ok") = (res = "ok")
            /\ res = "ok" => layouts[1] = b.body

\* every child of every container is no larger than the container
RECURSIVE Fits(_)
Fits(tok) ==
    \A i \in 1..Len(tok.children) :
        /\ tok.children[i].width <= tok.width
        /\ tok.children[i].height <= tok.height
        /\ Fits(tok.children[i])

\* C12: the layout computation returns a layout whose extents fit their
\* containers or returns the underflow error: it never panics and no
\* subtraction wraps around.
C12_NoUnderflow ==
    Emitted =>
        /\ res \in {"ok", "err"}
        /\ res = "ok" => Fits(ParseLayout(layouts[1]).tok)

(***************************************************************************)
(* Properties of the checksum                                              *)
(***************************************************************************)
\* the two bodies of test::start_session
BodyOfCode ==
    \* 160x90,0,0{80x90,0,0[80x30,0,0,2,80x59,0,31,3],79x90,81,0,4}
    <<49, 54, 48, 120, 57, 48, 44, 48, 44, 48, 123, 56, 48, 120, 57, 48,
      44, 48, 44, 48, 91, 56, 48, 120, 51, 48, 44, 48, 44, 48, 44, 50,
      44, 56, 48, 120, 53, 57, 44, 48, 44, 51, 49, 44, 51, 93, 44, 55,
      57, 120, 57, 48, 44, 56, 49, 44, 48, 44, 52, 125>>

BodyOfInfrastructure ==
    \* 160x90,0,0{40x90,0,0,5,80x90,41,0,6,38x90,122,0,7}
    <<49, 54, 48, 120, 57, 48, 44, 48, 44, 48, 123, 52, 48, 120, 57, 48,
      44, 48, 44, 48, 44, 53, 44, 56, 48, 120, 57, 48, 44, 52, 49, 44,
      48, 44, 54, 44, 51, 56, 120, 57, 48, 44, 49, 50, 50, 44, 48, 44,
      55, 125>>

IsLowerHex(b) == (b >= 48 /\ b <= 57) \/ (b >= 97 /\ b <= 102)

HexValue(b) == IF b <= 57 THEN b - 48 ELSE b - 87

\* the bytes of s from position i on, rotated and added into csum one by one
RECURSIVE RotateAdd(_, _, _)
RotateAdd(s, i, csum) ==
    IF i > Len(s) THEN csum
    ELSE LET rotated == (csum \div 2) + (IF csum % 2 = 1 THEN 32768 ELSE 0)
             next == (rotated + s[i]) % 65536
         IN  IF next >= 0 THEN RotateAdd(s, i + 1, next) ELSE 0

\* C13: every final select-layout carries "<4 lowercase hex digits>,<body>",
\* the digits being the 16-bit rotate-and-add checksum of the body bytes
\* from 0: 9b85 and c301 for the two bodies of the test.
C13_ChecksumPrefix ==
    \A j \in Positions(IsFinalLayout) :
        LET l == cmds[j].layout
            body == SubSeq(l, 6, Len(l))
        IN  /\ Len(l) >= 5
            /\ \A n \in 1..4 : IsLowerHex(l[n])
            /\ l[5] = Ch.comma
            /\ HexValue(l[1]) * 4096 + HexValue(l[2]) * 256
                  + HexValue(l[3]) * 16 + HexValue(l[4]) = RotateAdd(body, 1, 0)
            /\ body = BodyOfCode => SubSeq(l, 1, 4) = <<57, 98, 56, 53>>
            /\ body = BodyOfInfrastructure => SubSeq(l, 1, 4) = <<99, 51, 48, 49>>

C13_TestLayoutsApplied ==
    /\ StartedOk
    /\ \E j \in Positions(IsFinalLayout) :
          cmds[j].layout = <<57, 98, 56, 53, Ch.comma>> \o BodyOfCode
    /\ \E j \in Positions(IsFinalLayout) :
          cmds[j].layout = <<99, 51, 48, 49, Ch.comma>> \o BodyOfInfrastructure

(***************************************************************************)
(* Properties of the working directories                                   *)
(***************************************************************************)
\* a path resolved against the path it inherits
EffectivePath(path, inherited) ==
    IF path = NoPath \/ path = DotPath THEN inherited
    ELSE IF path[1] = Ch.slash \/ path[1] = Ch.tilde THEN path
    ELSE inherited \o <<Ch.slash>> \o path

\* the working directories of the panes that are split off, in the order of
\* their creation, a nested pane inheriting its parent's effective path
RECURSIVE SplitPathsFrom(_, _, _)
SplitPathsFrom(panes, i, inherited) ==
    IF i > Len(panes) THEN <<>>
    ELSE LET eff == EffectivePath(panes[i].path, inherited)
             own == IF i > 1 THEN <<eff>> ELSE <<>>
             below == IF panes[i].has_panes
                      THEN SplitPathsFrom(panes[i].panes, 1, eff)
                      ELSE <<>>
             rest == SplitPathsFrom(panes, i + 1, inherited)
         IN  own \o below \o rest

\* the -c arguments of the split-window commands of window w, in order
SplitPathsOf(w) ==
    LET at == SelectSeq(cmds, IsSplit)
        mine == SelectSeq([n \in 1..Len(at) |-> IF at[n].win = w THEN at[n].path ELSE NoPath],
                          LAMBDA q : q # NoPath)
    IN  mine

\* C14: the working directory of every split-window is the pane's path
\* resolved against the inherited path: the window's path for a top-level
\* pane, the parent pane's effective path for a nested pane.
C14_PathsInherited ==
    StartedOk =>
        \A i \in WindowsLaidOut :
            SplitPathsOf(WindowIdAt(i)) =
                SplitPathsFrom(session.windows[i].panes, 1,
                               EffectivePath(session.windows[i].path, session.path))

(***************************************************************************)
(* Properties of the container entries                                     *)
(***************************************************************************)
RECURSIVE OriginsOK(_)
OriginsOK(tok) ==
    \/ Len(tok.children) = 0
    \/ /\ tok.x = tok.children[1].x
       /\ tok.y = tok.children[1].y
       /\ \A i \in 1..Len(tok.children) : OriginsOK(tok.children[i])

\* C15: every container of more than one child is written with its own
\* origin, which is the origin of its first child, at the root and below it.
C15_ContainerOrigin ==
    tokens.ok => OriginsOK(tokens.tok)

(***************************************************************************)
(* Properties of the shares of the children before the last                *)
(***************************************************************************)
\* the cells taken off the share of child i (1-based) of a container at
\* `depth`: the dividers the container has counted before it
DividersBefore(i, depth) ==
    IF depth > 0 THEN i - 1 ELSE IF i > 1 THEN i - 2 ELSE 0

\* one cell for every child but the first child of the root
OneUnlessFirstOfRoot(i, depth) ==
    IF depth > 0 \/ i > 1 THEN 1 ELSE 0

\* the cells taken off under either rule
Taken(i, depth, counted) ==
    IF counted THEN DividersBefore(i, depth) ELSE OneUnlessFirstOfRoot(i, depth)

\* every child before the last of every container written with its children
\* has floor(A * flex / S) less Taken(i, depth, counted)
RECURSIVE SharesOK(_, _, _, _)
SharesOK(panes, tok, depth, counted) ==
    (Len(panes) > 1 /\ Len(tok.children) = Len(panes)) =>
        \A i \in 1..Len(panes) :
            /\ i < Len(panes) =>
                  ExtentOn(tok.children[i], tok.split_type) =
                      (ExtentOn(tok, tok.split_type) * panes[i].flex)
                          \div TotalFlex(panes) - Taken(i, depth, counted)
            /\ panes[i].has_panes =>
                  SharesOK(panes[i].panes, tok.children[i], depth + 1, counted)

NearestMultiple(n) ==
    IF n % 3 = 2 THEN n + 1 ELSE n - (n % 3)

\* the weights of siblings of the given extents: the rounded extents divided
\* by their gcd, and then by the gcd of the results
WeightsOf(extents) ==
    LET rounded == [i \in 1..Len(extents) |-> NearestMultiple(extents[i])]
        g == gcd_vec(rounded)
        raw == [i \in 1..Len(extents) |-> rounded[i] \div g]
        h == gcd_vec(raw)
    IN  [i \in 1..Len(extents) |-> raw[i] \div h]

\* the reduced panes carry the weights of the extents of their tokens, at
\* every container
RECURSIVE WeightsOK(_, _, _)
WeightsOK(panes, toks, split_type) ==
    /\ Len(panes) = Len(toks)
    /\ Len(toks) > 0 =>
          LET w == WeightsOf([i \in 1..Len(toks) |-> ExtentOn(toks[i], split_type)])
          IN  /\ \A i \in 1..Len(toks) : panes[i].flex = w[i]
              /\ gcd_vec([i \in 1..Len(panes) |-> panes[i].flex]) = 1
    /\ \A i \in 1..Len(toks) :
          WeightsOK(panes[i].panes, toks[i].children, toks[i].split_type)

\* C17: at each container the reducer gives the siblings their extents
\* rounded to the nearest multiple of 3, divided by the gcd of the rounded
\* extents and by the gcd of the results; the weights have gcd 1.
C17_WeightsOfRounded ==
    reduced # <<>> =>
        WeightsOK(reduced[1].panes, tokens.tok.children, tokens.tok.split_type)

(***************************************************************************)
(* Properties of the failure handling                                      *)
(***************************************************************************)
\* command j stops a session
IsKillSession(j) ==
    cmds[j].verb = "kill-session"

\* the invocation issued new-session for that name before command j
CreatedBefore(name, j) ==
    \E i \in 1..(j - 1) : cmds[i].verb = "new-session" /\ cmds[i].sess = name

\* C18: start never stops a session it did not create: every kill-session
\* it issues names a session for which it has issued new-session before.
C18_StopsOnlyCreated ==
    \A j \in 1..Len(cmds) : IsKillSession(j) => CreatedBefore(cmds[j].sess, j)

====
